---- MODULE Spec2Model ----
(***************************************************************************)
(* A model of json_parse: the tokenizer of src/lex.rs, the recursive-      *)
(* descent parser of src/parse.rs (and parse_value of src/parse/mod.rs,    *)
(* the second file the repository holds for `mod parse`) and the driver    *)
(* of src/main.rs.                                                         *)
(*                                                                         *)
(* Text is a sequence of one-character strings.  Tokens, tree nodes and    *)
(* results are tuples whose first component is the variant's name, so a    *)
(* Rust value Token::Integer(5) is <<"Integer", 5>>.  Option<T> is a       *)
(* sequence of length 0 (None) or 1 (Some).                                *)
(***************************************************************************)
EXTENDS Integers, Sequences, FiniteSets, TLC

\* ------------------------------------------------------------------------
\* Bounds of the model
\* ------------------------------------------------------------------------
\* longest text of the exhaustive family of short inputs
MaxLen == 4
\* longest text of the exhaustive families over the letters of a literal
MaxLit == 5
\* most pairs of an object of the wide documents
MaxPairs == 2
\* most elements/pairs of a container of the nested documents
MaxElems == 2
\* deepest nesting of containers below the top-level object
MaxDepth == 2

\* ------------------------------------------------------------------------
\* Option, Result and sequences of characters
\* ------------------------------------------------------------------------
None == <<>>
Some(x) == <<x>>

Ok(x) == <<"Ok", x>>
Err(e) == <<"Err", e>>
IsOk(r) == r[1] = "Ok"
IsErr(r) == r[1] = "Err"

LexError_InvalidToken == <<"InvalidToken">>
ParseError_ExpectedToken == <<"ExpectedToken">>

Min(a, b) == IF a < b THEN a ELSE b

\* Peekable::peek
Peek(cs) == IF cs = <<>> THEN None ELSE Some(Head(cs))
\* the iterator after n calls of next()
Drop(cs, n) == SubSeq(cs, Min(n, Len(cs)) + 1, Len(cs))
\* what n calls of next() return (fewer when the input ends)
Take(cs, n) == SubSeq(cs, 1, Min(n, Len(cs)))

SeqsUpTo(S, n) == UNION {[1..k -> S] : k \in 0..n}

RECURSIVE Flatten(_)
Flatten(ss) == IF ss = <<>> THEN <<>> ELSE Head(ss) \o Flatten(Tail(ss))

\* ------------------------------------------------------------------------
\* Tokens (lex.rs, enum Token)
\* ------------------------------------------------------------------------
Token_ObjectStart == <<"ObjectStart">>
Token_ObjectEnd == <<"ObjectEnd">>
Token_ArrayStart == <<"ArrayStart">>
Token_ArrayEnd == <<"ArrayEnd">>
Token_True == <<"True">>
Token_False == <<"False">>
Token_Null == <<"Null">>
Token_Comma == <<"Comma">>
Token_Colon == <<"Colon">>
Token_Whitespace == <<"Whitespace">>
Token_Integer(n) == <<"Integer", n>>
Token_Float(f) == <<"Float", f>>
Token_String(s) == <<"String", s>>
Token_NoMoreTokens == <<"NoMoreTokens">>

\* ------------------------------------------------------------------------
\* Characters and numbers
\* ------------------------------------------------------------------------
DecimalChars == <<"0", "1", "2", "3", "4", "5", "6", "7", "8", "9">>
LowerChars == <<"a", "b", "c", "d", "e", "f", "g", "h", "i", "j", "k", "l", "m",
                "n", "o", "p", "q", "r", "s", "t", "u", "v", "w", "x", "y", "z">>
UpperChars == <<"A", "B", "C", "D", "E", "F", "G", "H", "I", "J", "K", "L", "M",
                "N", "O", "P", "Q", "R", "S", "T", "U", "V", "W", "X", "Y", "Z">>

Range(s) == {s[i] : i \in DOMAIN s}
IndexOf(s, c) == CHOOSE i \in DOMAIN s : s[i] = c

\* char::to_digit(radix): the digit's value when it is below the radix
to_digit(c, radix) ==
    LET v == IF c \in Range(DecimalChars) THEN IndexOf(DecimalChars, c) - 1
             ELSE IF c \in Range(LowerChars) THEN IndexOf(LowerChars, c) + 9
             ELSE IF c \in Range(UpperChars) THEN IndexOf(UpperChars, c) + 9
             ELSE radix
    IN  IF v < radix THEN Some(v) ELSE None

\* char::is_digit(radix)
is_digit(c, radix) == to_digit(c, radix) # None

\* A u32 is kept as two 16-bit halves, so that arithmetic modulo 2^32 stays
\* inside the integers TLC can compute with.
U32(hi, lo) == [hi |-> hi, lo |-> lo]

\* digits * 10 + digit in u32: the wrapped value, and whether it overflowed
MulAdd10(u, d) ==
    LET lo == u.lo * 10 + d
        hi == u.hi * 10 + (lo \div 65536)
    IN  [val |-> U32(hi % 65536, lo % 65536), ovf |-> hi >= 65536]

\* `digits as i32`: reinterpretation of the 32 bits in two's complement
as_i32(u) == IF u.hi >= 32768 THEN (u.hi - 65536) * 65536 + u.lo
             ELSE u.hi * 65536 + u.lo

\* the decimal digits of a number n <= 0 (of its absolute value)
RECURSIVE NegDigits(_)
NegDigits(n) ==
    IF n = 0 THEN <<>>
    ELSE LET d == (10 - (n % 10)) % 10
         IN  Append(NegDigits((n + d) \div 10), DecimalChars[d + 1])

\* i32::to_string
to_string(n) == IF n = 0 THEN <<"0">>
                ELSE IF n < 0 THEN <<"-">> \o NegDigits(n)
                ELSE NegDigits(0 - n)

\* [a, b].join(".")
join(a, b) == a \o <<".">> \o b

RECURSIVE StripLeadingZeros(_)
StripLeadingZeros(ds) ==
    IF ds # <<>> /\ Head(ds) = "0" THEN StripLeadingZeros(Tail(ds)) ELSE ds

RECURSIVE StripTrailingZeros(_)
StripTrailingZeros(ds) ==
    IF ds # <<>> /\ ds[Len(ds)] = "0"
    THEN StripTrailingZeros(SubSeq(ds, 1, Len(ds) - 1)) ELSE ds

\* An f64 is kept as the decimal number it was read from: sign, integer
\* digits without leading zeros, fraction digits without trailing zeros.
\* Two texts give the same F64 exactly when they write the same number.
F64(neg, int, frac) ==
    [neg |-> neg, int |-> StripLeadingZeros(int), frac |-> StripTrailingZeros(frac)]

AllDecimal(ds) == \A i \in DOMAIN ds : ds[i] \in Range(DecimalChars)

\* str::parse::<f64> on texts made of a sign, digits and a point
parse_f64(text) ==
    LET neg == text # <<>> /\ Head(text) = "-"
        body == IF text # <<>> /\ Head(text) \in {"-", "+"} THEN Tail(text) ELSE text
        dots == {i \in DOMAIN body : body[i] = "."}
        dot == IF dots = {} THEN Len(body) + 1 ELSE CHOOSE i \in dots : \A j \in dots : i <= j
        int == SubSeq(body, 1, dot - 1)
        frac == SubSeq(body, dot + 1, Len(body))
    IN  IF AllDecimal(int) /\ AllDecimal(frac) /\ Len(int) + Len(frac) > 0
        THEN Ok(F64(neg, int, frac))
        ELSE Err(<<"ParseFloatError">>)

\* ------------------------------------------------------------------------
\* The tokenizer's functions (lex.rs).  Each returns the Result, the
\* iterator as the call left it, and whether a u32 operation overflowed.
\* ------------------------------------------------------------------------
Lexed(res, cs, ovf) == [res |-> res, chars |-> cs, ovf |-> ovf]

RECURSIVE lex_string_loop(_, _)
lex_string_loop(cs, string) ==
    IF cs = <<>> THEN Lexed(Err(LexError_InvalidToken), cs, FALSE)
    ELSE IF Head(cs) = "\"" THEN Lexed(Ok(Token_String(string)), Tail(cs), FALSE)
    ELSE lex_string_loop(Tail(cs), Append(string, Head(cs)))

lex_string(cs) ==
    IF Take(cs, 1) # <<"\"">> THEN Lexed(Err(LexError_InvalidToken), Drop(cs, 1), FALSE)
    ELSE lex_string_loop(Tail(cs), <<>>)

\* lex_true, were the last character not compared
lex_true_loose(cs) ==
    IF Len(cs) >= 4 /\ Take(cs, 3) = <<"t", "r", "u">>
    THEN Lexed(Ok(Token_True), Drop(cs, 4), FALSE)
    ELSE Lexed(Err(LexError_InvalidToken), Drop(cs, 4), FALSE)

lex_true(cs) ==
    IF Take(cs, 4) = <<"t", "r", "u", "e">>
    THEN Lexed(Ok(Token_True), Drop(cs, 4), FALSE)
    ELSE Lexed(Err(LexError_InvalidToken), Drop(cs, 4), FALSE)

lex_false(cs) ==
    IF Take(cs, 5) = <<"f", "a", "l", "s", "e">>
    THEN Lexed(Ok(Token_False), Drop(cs, 5), FALSE)
    ELSE Lexed(Err(LexError_InvalidToken), Drop(cs, 5), FALSE)

lex_null(cs) ==
    IF Take(cs, 4) = <<"n", "u", "l", "l">>
    THEN Lexed(Ok(Token_Null), Drop(cs, 4), FALSE)
    ELSE Lexed(Err(LexError_InvalidToken), Drop(cs, 4), FALSE)

\* the radix of the digit loop of lex_digits
DigitRadix == 11

\* the while-let loop of lex_digits
RECURSIVE lex_digits_loop(_, _, _)
lex_digits_loop(cs, digits, ovf) ==
    IF cs # <<>> /\ to_digit(Head(cs), DigitRadix) # None
    THEN LET r == MulAdd10(digits, to_digit(Head(cs), DigitRadix)[1])
         IN  lex_digits_loop(Tail(cs), r.val, ovf \/ r.ovf)
    ELSE [digits |-> digits, chars |-> cs, ovf |-> ovf]

\* The guard reads chars.peek().map(|c| c.is_digit(10)).is_none(): the map
\* keeps Some as Some, so the guard is true only at the end of the input.
lex_digits(cs) ==
    IF (IF Peek(cs) = None THEN None ELSE Some(is_digit(Peek(cs)[1], 10))) = None
    THEN Lexed(Err(LexError_InvalidToken), cs, FALSE)
    ELSE LET r == lex_digits_loop(cs, U32(0, 0), FALSE)
         IN  Lexed(Ok(Token_Integer(as_i32(r.digits))), r.chars, r.ovf)

lex_number(cs) ==
    LET i == lex_digits(cs) IN
    IF IsOk(i.res)
    THEN IF Peek(i.chars) = Some(".")
         THEN LET d == lex_digits(Tail(i.chars)) IN
              IF IsOk(d.res)
              THEN LET f == parse_f64(join(to_string(i.res[2][2]), to_string(d.res[2][2])))
                   IN  IF IsOk(f)
                       THEN Lexed(Ok(Token_Float(f[2])), d.chars, i.ovf \/ d.ovf)
                       ELSE Lexed(Err(LexError_InvalidToken), d.chars, i.ovf \/ d.ovf)
              ELSE Lexed(Err(LexError_InvalidToken), d.chars, i.ovf)
         ELSE Lexed(Ok(i.res[2]), i.chars, i.ovf)
    ELSE Lexed(Err(LexError_InvalidToken), i.chars, FALSE)

\* fn next: one token from the front of the input
next(cs) ==
    IF Peek(cs) # None
    THEN LET ch == Peek(cs)[1] IN
         CASE ch = "{" -> Lexed(Ok(Token_ObjectStart), Tail(cs), FALSE)
           [] ch = "}" -> Lexed(Ok(Token_ObjectEnd), Tail(cs), FALSE)
           [] ch = "[" -> Lexed(Ok(Token_ArrayStart), Tail(cs), FALSE)
           [] ch = "]" -> Lexed(Ok(Token_ArrayEnd), Tail(cs), FALSE)
           [] ch = "," -> Lexed(Ok(Token_Comma), Tail(cs), FALSE)
           [] ch = ":" -> Lexed(Ok(Token_Colon), Tail(cs), FALSE)
           [] ch = "0" -> Lexed(Ok(Token_Integer(0)), Tail(cs), FALSE)
           [] ch \in {"1", "2", "3", "4", "5", "6", "7", "8", "9"} -> lex_number(cs)
           [] ch = "\"" -> lex_string(cs)
           [] ch = "t" -> lex_true(cs)
           [] ch = "f" -> lex_false(cs)
           [] ch = "n" -> lex_null(cs)
           [] ch \in {"\n", "\t", "\r", " "} -> Lexed(Ok(Token_Whitespace), Tail(cs), FALSE)
           [] OTHER -> Lexed(Err(LexError_InvalidToken), cs, FALSE)
    ELSE Lexed(Ok(Token_NoMoreTokens), cs, FALSE)

\* ------------------------------------------------------------------------
\* The parse tree (parse.rs)
\* ------------------------------------------------------------------------
Object_Empty == <<"Empty">>
Object_Nonempty(members) == <<"Nonempty", members>>
Members_Pair(key, value) == <<"Pair", key, value>>
Members_Pairs(key, value, members) == <<"Pairs", key, value, members>>
Array_Empty == <<"Empty">>
Array_Nonempty(elements) == <<"Nonempty", elements>>
Elements_Single(value) == <<"Single", value>>
Elements_Many(value, elements) == <<"Many", value, elements>>
Value_String(s) == <<"String", s>>
Value_Number(n) == <<"Number", n>>
Value_Object(o) == <<"Object", o>>
Value_Array(a) == <<"Array", a>>
Value_True == <<"True">>
Value_False == <<"False">>
Value_Null == <<"Null">>
JSONNumber_Integer(i) == <<"Integer", i>>
JSONNumber_Float(f) == <<"Float", f>>
\* Value::Number(i32) of parse/mod.rs
Value_Number_i32(n) == <<"Number", <<"i32", n>>>>

\* ------------------------------------------------------------------------
\* State
\* ------------------------------------------------------------------------
VARIABLES
    buffer,     \* main: the text read from standard input
    chars,      \* Lexer.chars: the characters not yet consumed
    tokens,     \* the Vec<Token> of lex(), then main's tokens
    lexResult,  \* what lexer.lex() returned: None while it runs
    pc,         \* main's position: "lex", "lexed", "parse", "done", "panicked"
    cursor,     \* the parser's Tokens iterator: how many tokens it has yielded
    stack,      \* the active calls of the parser, innermost last
    ret,        \* the Result the last finished parser call returned
    output,     \* what main printed: None before it prints
    parser      \* the file `mod parse` is built from: the repository holds two

vars == <<buffer, chars, tokens, lexResult, pc, cursor, stack, ret, output, parser>>

lexVars == <<chars, tokens, lexResult>>
parseVars == <<cursor, stack, ret>>

\* ------------------------------------------------------------------------
\* Lexer::lex, one arm of the match on next(&mut self.chars) per action
\* ------------------------------------------------------------------------
\* Ok(Token::NoMoreTokens) => break, and then Ok(tokens)
LexBreak ==
    /\ pc = "lex"
    /\ next(chars).res = Ok(Token_NoMoreTokens)
    /\ lexResult' = Some(Ok(tokens))
    /\ pc' = "lexed"
    /\ UNCHANGED <<buffer, chars, tokens, parseVars, output, parser>>

\* Ok(token) => tokens.push(token)
LexPush ==
    /\ pc = "lex"
    /\ LET r == next(chars) IN
        /\ IsOk(r.res)
        /\ r.res # Ok(Token_NoMoreTokens)
        /\ tokens' = Append(tokens, r.res[2])
        /\ chars' = r.chars
    /\ UNCHANGED <<buffer, lexResult, pc, parseVars, output, parser>>

\* Err(err) => return Err(err): the vector is dropped
LexErr ==
    /\ pc = "lex"
    /\ LET r == next(chars) IN
        /\ IsErr(r.res)
        /\ lexResult' = Some(Err(r.res[2]))
        /\ chars' = r.chars
    /\ tokens' = <<>>
    /\ pc' = "lexed"
    /\ UNCHANGED <<buffer, parseVars, output, parser>>

\* digits * 10 + digit overflows u32: a build with overflow checks panics
\* there (a build without them wraps, which LexPush and LexErr model)
LexPanic ==
    /\ pc = "lex"
    /\ next(chars).ovf
    /\ pc' = "panicked"
    /\ UNCHANGED <<buffer, lexVars, parseVars, output, parser>>

\* ------------------------------------------------------------------------
\* The parser's token iterator
\* ------------------------------------------------------------------------
\* tokens.peek(), and what tokens.next() returns
PeekToken(n) == IF n < Len(tokens) THEN Some(tokens[n + 1]) ELSE None
\* the iterator after tokens.next()
Advance(n) == Min(n + 1, Len(tokens))

IsTokenString(t) == t[1] = "String"

\* a call in progress: the production, where it stands, its locals, and
\* `from`, the position of the token iterator when the call was made
Frame(fn, at, key, value) ==
    [fn |-> fn, at |-> at, key |-> key, value |-> value, from |-> cursor']
Top == stack[Len(stack)]
Pop == SubSeq(stack, 1, Len(stack) - 1)
At(fn, at) == pc = "parse" /\ stack # <<>> /\ Top.fn = fn /\ Top.at = at

\* the running call returns r to its caller
Return(r) == stack' = Pop /\ ret' = Some(r)
\* the running call moves to `at` (keeping key and value) and calls fn
Call(at, key, value, fn) ==
    /\ stack' = Pop \o <<[Top EXCEPT !.at = at, !.key = key, !.value = value],
                         Frame(fn, "entry", <<>>, None)>>
    /\ ret' = None

\* ------------------------------------------------------------------------
\* The parser (parse.rs).  A call that calls another production is one
\* action up to the call and one action from the callee's return on.
\* ------------------------------------------------------------------------
mainVars == <<buffer, lexVars, pc, output, parser>>

\* parse_object up to parse_members(&mut tokens)
parse_object ==
    /\ At("parse_object", "entry")
    /\ IF PeekToken(cursor) # Some(Token_ObjectStart)
       THEN /\ cursor' = Advance(cursor)
            /\ Return(Err(ParseError_ExpectedToken))
       ELSE IF PeekToken(cursor + 1) = Some(Token_ObjectEnd)
       THEN /\ cursor' = cursor + 2
            /\ Return(Ok(Object_Empty))
       ELSE /\ cursor' = cursor + 1
            /\ Call("members", <<>>, None, "parse_members")
    /\ UNCHANGED mainVars

\* parse_object: the and_then closure on the result of parse_members
parse_object_members ==
    /\ At("parse_object", "members")
    /\ IF IsErr(ret[1])
       THEN /\ cursor' = cursor
            /\ Return(ret[1])
       ELSE /\ cursor' = Advance(cursor)
            /\ IF PeekToken(cursor) = Some(Token_ObjectEnd)
               THEN Return(Ok(Object_Nonempty(ret[1][2])))
               ELSE Return(Err(ParseError_ExpectedToken))
    /\ UNCHANGED mainVars

\* parse_members up to parse_pair(&mut tokens)
parse_members ==
    /\ At("parse_members", "entry")
    /\ UNCHANGED <<cursor, mainVars>>
    /\ Call("pair", <<>>, None, "parse_pair")

\* parse_members: the and_then closure on the result of parse_pair
parse_members_pair ==
    /\ At("parse_members", "pair")
    /\ IF IsErr(ret[1])
       THEN /\ cursor' = cursor
            /\ Return(ret[1])
       ELSE LET key == ret[1][2][2]
                value == ret[1][2][3]
            IN  IF PeekToken(cursor) # Some(Token_Comma)
                THEN /\ cursor' = cursor
                     /\ Return(Ok(Members_Pair(key, value)))
                ELSE /\ cursor' = cursor + 1
                     /\ Call("rest", key, Some(value), "parse_members")
    /\ UNCHANGED mainVars

\* parse_members_rest, were the pairs parsed so far kept when the rest fails
parse_members_rest_partial ==
    /\ At("parse_members", "rest")
    /\ IF IsErr(ret[1])
       THEN Return(Ok(Members_Pair(Top.key, Top.value[1])))
       ELSE Return(Ok(Members_Pairs(Top.key, Top.value[1], ret[1][2])))
    /\ UNCHANGED <<cursor, mainVars>>

\* parse_members: the map closure on the result of the recursive call
parse_members_rest ==
    /\ At("parse_members", "rest")
    /\ IF IsErr(ret[1])
       THEN Return(ret[1])
       ELSE Return(Ok(Members_Pairs(Top.key, Top.value[1], ret[1][2])))
    /\ UNCHANGED <<cursor, mainVars>>

\* parse_pair up to parse_value(&mut tokens)
parse_pair ==
    /\ At("parse_pair", "entry")
    /\ cursor' = Advance(Advance(cursor))
    /\ IF /\ PeekToken(cursor) # None
          /\ IsTokenString(PeekToken(cursor)[1])
          /\ PeekToken(cursor + 1) = Some(Token_Colon)
       THEN Call("value", PeekToken(cursor)[1][2], None, "parse_value")
       ELSE Return(Err(ParseError_ExpectedToken))
    /\ UNCHANGED mainVars

\* parse_pair: the map closure on the result of parse_value
parse_pair_value ==
    /\ At("parse_pair", "value")
    /\ IF IsErr(ret[1])
       THEN Return(ret[1])
       ELSE Return(Ok(<<"(String, Value)", Top.key, ret[1][2]>>))
    /\ UNCHANGED <<cursor, mainVars>>

Parsers == {"parse.rs", "parse/mod.rs"}

\* parse_value of parse.rs: the arms that return the Value of one token
\* (None: the token is matched by no such arm)
parse_value_token(t) ==
    CASE t[1] = "String" -> Some(Value_String(t[2]))
      [] t[1] = "Integer" -> Some(Value_Number(JSONNumber_Integer(t[2])))
      [] t[1] = "Float" -> Some(Value_Number(JSONNumber_Float(t[2])))
      [] t[1] = "True" -> Some(Value_True)
      [] t[1] = "False" -> Some(Value_False)
      [] t[1] = "Null" -> Some(Value_Null)
      [] OTHER -> None

\* parse_value of parse/mod.rs: Value::Number holds the i32 itself, and no
\* arm matches Token::Float
parse_value_token_mod(t) ==
    CASE t[1] = "String" -> Some(Value_String(t[2]))
      [] t[1] = "Integer" -> Some(Value_Number_i32(t[2]))
      [] t[1] = "True" -> Some(Value_True)
      [] t[1] = "False" -> Some(Value_False)
      [] t[1] = "Null" -> Some(Value_Null)
      [] OTHER -> None

\* parse_value whose scalar arms peek at the token and leave it in place
parse_value_kept ==
    /\ At("parse_value", "entry")
    /\ IF PeekToken(cursor) = None
       THEN /\ cursor' = cursor
            /\ Return(Err(ParseError_ExpectedToken))
       ELSE LET t == PeekToken(cursor)[1]
                v == IF parser = "parse.rs" THEN parse_value_token(t)
                     ELSE parse_value_token_mod(t)
            IN
            IF v # None
            THEN /\ cursor' = cursor
                 /\ Return(Ok(v[1]))
            ELSE IF t = Token_ObjectStart
            THEN /\ cursor' = cursor
                 /\ Call("object", <<>>, None, "parse_object")
            ELSE IF t = Token_ArrayStart
            THEN /\ cursor' = cursor
                 /\ Call("array", <<>>, None, "parse_array")
            ELSE /\ cursor' = cursor
                 /\ Return(Err(ParseError_ExpectedToken))
    /\ UNCHANGED mainVars

\* parse_value up to its return or its call of parse_object or parse_array
parse_value ==
    /\ At("parse_value", "entry")
    /\ IF PeekToken(cursor) = None
       THEN /\ cursor' = cursor
            /\ Return(Err(ParseError_ExpectedToken))
       ELSE LET t == PeekToken(cursor)[1]
                v == IF parser = "parse.rs" THEN parse_value_token(t)
                     ELSE parse_value_token_mod(t)
            IN
            IF v # None
            THEN /\ cursor' = cursor + 1
                 /\ Return(Ok(v[1]))
            ELSE IF t = Token_ObjectStart
            THEN /\ cursor' = cursor
                 /\ Call("object", <<>>, None, "parse_object")
            ELSE IF t = Token_ArrayStart
            THEN /\ cursor' = cursor
                 /\ Call("array", <<>>, None, "parse_array")
            ELSE /\ cursor' = cursor
                 /\ Return(Err(ParseError_ExpectedToken))
    /\ UNCHANGED mainVars

\* parse_value: .map(Value::Object) on the result of parse_object
parse_value_object ==
    /\ At("parse_value", "object")
    /\ IF IsErr(ret[1])
       THEN Return(ret[1])
       ELSE Return(Ok(Value_Object(ret[1][2])))
    /\ UNCHANGED <<cursor, mainVars>>

\* parse_value: .map(Value::Array) on the result of parse_array
parse_value_array ==
    /\ At("parse_value", "array")
    /\ IF IsErr(ret[1])
       THEN Return(ret[1])
       ELSE Return(Ok(Value_Array(ret[1][2])))
    /\ UNCHANGED <<cursor, mainVars>>

\* parse_array with the closing token of parse_object in the second peek
parse_array_copied ==
    /\ At("parse_array", "entry")
    /\ IF PeekToken(cursor) # Some(Token_ArrayStart)
       THEN /\ cursor' = Advance(cursor)
            /\ Return(Err(ParseError_ExpectedToken))
       ELSE IF PeekToken(cursor + 1) = Some(Token_ObjectEnd)
       THEN /\ cursor' = cursor + 2
            /\ Return(Ok(Array_Empty))
       ELSE /\ cursor' = cursor + 1
            /\ Call("elements", <<>>, None, "parse_elements")
    /\ UNCHANGED mainVars

\* parse_array up to parse_elements(&mut tokens)
parse_array ==
    /\ At("parse_array", "entry")
    /\ IF PeekToken(cursor) # Some(Token_ArrayStart)
       THEN /\ cursor' = Advance(cursor)
            /\ Return(Err(ParseError_ExpectedToken))
       ELSE IF PeekToken(cursor + 1) = Some(Token_ArrayEnd)
       THEN /\ cursor' = cursor + 2
            /\ Return(Ok(Array_Empty))
       ELSE /\ cursor' = cursor + 1
            /\ Call("elements", <<>>, None, "parse_elements")
    /\ UNCHANGED mainVars

\* parse_array: the and_then closure on the result of parse_elements
parse_array_elements ==
    /\ At("parse_array", "elements")
    /\ IF IsErr(ret[1])
       THEN /\ cursor' = cursor
            /\ Return(ret[1])
       ELSE /\ cursor' = Advance(cursor)
            /\ IF PeekToken(cursor) = Some(Token_ArrayEnd)
               THEN Return(Ok(Array_Nonempty(ret[1][2])))
               ELSE Return(Err(ParseError_ExpectedToken))
    /\ UNCHANGED mainVars

\* parse_elements up to parse_value(&mut tokens)
parse_elements ==
    /\ At("parse_elements", "entry")
    /\ UNCHANGED <<cursor, mainVars>>
    /\ Call("value", <<>>, None, "parse_value")

\* parse_elements_value, were a comma before the closing bracket let through
parse_elements_value_trailing ==
    /\ At("parse_elements", "value")
    /\ IF IsErr(ret[1])
       THEN /\ cursor' = cursor
            /\ Return(ret[1])
       ELSE IF PeekToken(cursor) # Some(Token_Comma)
       THEN /\ cursor' = cursor
            /\ Return(Ok(Elements_Single(ret[1][2])))
       ELSE IF PeekToken(cursor + 1) = Some(Token_ArrayEnd)
       THEN /\ cursor' = cursor + 1
            /\ Return(Ok(Elements_Single(ret[1][2])))
       ELSE /\ cursor' = cursor + 1
            /\ Call("rest", <<>>, Some(ret[1][2]), "parse_elements")
    /\ UNCHANGED mainVars

\* parse_elements: the and_then closure on the result of parse_value
parse_elements_value ==
    /\ At("parse_elements", "value")
    /\ IF IsErr(ret[1])
       THEN /\ cursor' = cursor
            /\ Return(ret[1])
       ELSE IF PeekToken(cursor) # Some(Token_Comma)
       THEN /\ cursor' = cursor
            /\ Return(Ok(Elements_Single(ret[1][2])))
       ELSE /\ cursor' = cursor + 1
            /\ Call("rest", <<>>, Some(ret[1][2]), "parse_elements")
    /\ UNCHANGED mainVars

\* parse_elements: the map closure on the result of the recursive call
parse_elements_rest ==
    /\ At("parse_elements", "rest")
    /\ IF IsErr(ret[1])
       THEN Return(ret[1])
       ELSE Return(Ok(Elements_Many(Top.value[1], ret[1][2])))
    /\ UNCHANGED <<cursor, mainVars>>

\* ------------------------------------------------------------------------
\* main (main.rs)
\* ------------------------------------------------------------------------
\* tokens.retain(|token| token != &Token::Whitespace)
retain(ts) == SelectSeq(ts, LAMBDA t : t # Token_Whitespace)

\* Ok(mut tokens) => retain, then the call of parse_object
MainRetain ==
    /\ pc = "lexed"
    /\ IsOk(lexResult[1])
    /\ tokens' = retain(lexResult[1][2])
    /\ pc' = "parse"
    /\ cursor' = 0
    /\ stack' = <<Frame("parse_object", "entry", <<>>, None)>>
    /\ ret' = None
    /\ UNCHANGED <<buffer, chars, lexResult, output, parser>>

\* println!("{:?}", parse_object(..))
MainPrint ==
    /\ pc = "parse"
    /\ stack = <<>>
    /\ output' = ret
    /\ pc' = "done"
    /\ UNCHANGED <<buffer, lexVars, parseVars, parser>>

\* Err(err) => println!("{:?}", err)
MainPrintErr ==
    /\ pc = "lexed"
    /\ IsErr(lexResult[1])
    /\ output' = Some(lexResult[1][2])
    /\ pc' = "done"
    /\ UNCHANGED <<buffer, lexVars, parseVars, parser>>

\* ------------------------------------------------------------------------
\* The inputs: what standard input may hold
\* ------------------------------------------------------------------------
\* A document is written as a sequence of lexemes; its text is their
\* concatenation.
RECURSIVE LexemesOfValue(_), LexemesOfMembers(_), LexemesOfElements(_)

LexemeOfString(s) == <<"\"">> \o s \o <<"\"">>

LexemeOfFloat(f) ==
    (IF f.neg THEN <<"-">> ELSE <<>>)
        \o (IF f.int = <<>> THEN <<"0">> ELSE f.int)
        \o <<".">>
        \o (IF f.frac = <<>> THEN <<"0">> ELSE f.frac)

LexemesOfObject(o) ==
    IF o = Object_Empty THEN << <<"{">>, <<"}">> >>
    ELSE << <<"{">> >> \o LexemesOfMembers(o[2]) \o << <<"}">> >>

LexemesOfArray(a) ==
    IF a = Array_Empty THEN << <<"[">>, <<"]">> >>
    ELSE << <<"[">> >> \o LexemesOfElements(a[2]) \o << <<"]">> >>

LexemesOfValue(v) ==
    CASE v[1] = "String" -> << LexemeOfString(v[2]) >>
      [] v[1] = "Number" -> IF v[2][1] = "Integer" THEN << to_string(v[2][2]) >>
                            ELSE << LexemeOfFloat(v[2][2]) >>
      [] v[1] = "Object" -> LexemesOfObject(v[2])
      [] v[1] = "Array" -> LexemesOfArray(v[2])
      [] v[1] = "True" -> << <<"t", "r", "u", "e">> >>
      [] v[1] = "False" -> << <<"f", "a", "l", "s", "e">> >>
      [] v[1] = "Null" -> << <<"n", "u", "l", "l">> >>

LexemesOfMembers(m) ==
    << LexemeOfString(m[2]), <<":">> >> \o LexemesOfValue(m[3])
        \o (IF m[1] = "Pair" THEN <<>> ELSE << <<",">> >> \o LexemesOfMembers(m[4]))

LexemesOfElements(e) ==
    LexemesOfValue(e[2])
        \o (IF e[1] = "Single" THEN <<>> ELSE << <<",">> >> \o LexemesOfElements(e[3]))

\* the chain of a non-empty sequence of <<key, value>>, and of values
RECURSIVE MembersOf(_), ElementsOf(_)
MembersOf(ps) ==
    IF Len(ps) = 1 THEN Members_Pair(ps[1][1], ps[1][2])
    ELSE Members_Pairs(ps[1][1], ps[1][2], MembersOf(Tail(ps)))
ElementsOf(vs) ==
    IF Len(vs) = 1 THEN Elements_Single(vs[1])
    ELSE Elements_Many(vs[1], ElementsOf(Tail(vs)))
ObjectOf(ps) == IF ps = <<>> THEN Object_Empty ELSE Object_Nonempty(MembersOf(ps))
ArrayOf(vs) == IF vs = <<>> THEN Array_Empty ELSE Array_Nonempty(ElementsOf(vs))

One == Value_Number(JSONNumber_Integer(1))
Keys == {<<"a">>, <<"b">>}

\* one value of every kind, and the numbers JSON writes with a sign or
\* with a zero before the point
Scalars ==
    { Value_String(<<"a">>), One, Value_Number(JSONNumber_Float(F64(FALSE, <<"1">>, <<"5">>))),
      Value_True, Value_False, Value_Null,
      Value_Number(JSONNumber_Integer(0 - 1)),
      Value_Number(JSONNumber_Float(F64(FALSE, <<>>, <<"5">>))) }

\* containers nested up to d deep: empty, of one nested value, or of
\* several numbers
RECURSIVE Nest(_)
Nest(d) ==
    IF d = 0 THEN {One}
    ELSE LET inner == {<<>>} \cup {<<v>> : v \in Nest(d - 1)}
                          \cup {[i \in 1..k |-> One] : k \in 2..MaxElems}
         IN  {One} \cup {Value_Array(ArrayOf(vs)) : vs \in inner}
                   \cup {Value_Object(ObjectOf([i \in DOMAIN vs |-> <<<<"a">>, vs[i]>>])) : vs \in inner}

\* the documents: every kind of value, objects of several pairs with equal
\* and different keys, and nested containers
Documents ==
    {ObjectOf(<< <<k, v>> >>) : k \in Keys, v \in Scalars}
        \cup {ObjectOf(ps) : ps \in SeqsUpTo(Keys \X {One, Value_Null}, MaxPairs)}
        \cup {ObjectOf(<< <<<<"a">>, v>> >>) : v \in Nest(MaxDepth)}

WhitespaceLexemes == { <<" ">>, <<"\n">>, <<"\t">>, <<"\r">> }

Lexemes ==
    { <<"{">>, <<"}">>, <<"[">>, <<"]">>, <<",">>, <<":">>, <<"\"", "a", "\"">>,
      <<"1">>, <<"1", ".", "5">>, <<"t", "r", "u", "e">>, <<"f", "a", "l", "s", "e">>,
      <<"n", "u", "l", "l">> } \cup WhitespaceLexemes

InsertAt(ls, p, l) == SubSeq(ls, 1, p) \o <<l>> \o SubSeq(ls, p + 1, Len(ls))
RemoveAt(ls, i) == SubSeq(ls, 1, i - 1) \o SubSeq(ls, i + 1, Len(ls))

\* a document as written, with white space between two of its lexemes or
\* around it
Spellings(ls) ==
    {ls} \cup {InsertAt(ls, p, w) : p \in 0..Len(ls), w \in WhitespaceLexemes}

\* a document with one lexeme added, replaced or dropped, or cut short
Faults(ls) ==
    {InsertAt(ls, p, l) : p \in 0..Len(ls), l \in Lexemes}
        \cup {[ls EXCEPT ![i] = l] : i \in DOMAIN ls, l \in Lexemes}
        \cup {RemoveAt(ls, i) : i \in DOMAIN ls}
        \cup {SubSeq(ls, 1, i) : i \in 0..Len(ls)}

DocumentTexts ==
    UNION {{Flatten(ls) : ls \in Spellings(LexemesOfObject(d)) \cup Faults(LexemesOfObject(d))}
           : d \in Documents}

\* every short text over the characters the tokenizer tells apart in
\* strings and numbers
ShortAlphabet == {"\"", "\\", "a", "0", "1", "5", ".", ","}
LiteralAlphabets == { {"t", "r", "u", "e"}, {"f", "a", "l", "s", "e"}, {"n", "u", "l"} }

ShortTexts ==
    SeqsUpTo(ShortAlphabet, MaxLen)
        \cup UNION {SeqsUpTo(A, MaxLit) : A \in LiteralAlphabets}

\* numbers around the ends of i32 and u32, alone and as either side of a
\* fraction
BigNumbers ==
    { <<"2", "1", "4", "7", "4", "8", "3", "6", "4", "7">>,
      <<"2", "1", "4", "7", "4", "8", "3", "6", "4", "8">>,
      <<"4", "2", "9", "4", "9", "6", "7", "2", "9", "5">>,
      <<"4", "2", "9", "4", "9", "6", "7", "2", "9", "6">> }

BigNumberTexts ==
    BigNumbers \cup {n \o <<".", "5">> : n \in BigNumbers}
               \cup {<<"1", ".">> \o n : n \in BigNumbers}

Inputs == DocumentTexts \cup ShortTexts \cup BigNumberTexts

\* ------------------------------------------------------------------------
\* The specification
\* ------------------------------------------------------------------------
Init ==
    /\ buffer \in Inputs
    /\ chars = buffer
    /\ tokens = <<>>
    /\ lexResult = None
    /\ pc = "lex"
    /\ cursor = 0
    /\ stack = <<>>
    /\ ret = None
    /\ output = None
    /\ parser \in Parsers

Next ==
    \/ LexBreak \/ LexPush \/ LexErr \/ LexPanic
    \/ MainRetain \/ MainPrint \/ MainPrintErr
    \/ parse_object \/ parse_object_members
    \/ parse_members \/ parse_members_pair \/ parse_members_rest
    \/ parse_pair \/ parse_pair_value
    \/ parse_value \/ parse_value_object \/ parse_value_array
    \/ parse_array \/ parse_array_elements
    \/ parse_elements \/ parse_elements_value \/ parse_elements_rest

Spec == Init /\ [][Next]_vars

\* One thread runs the program on until main returns or panics.  The
\* steps of main and of the parser are weakly fair.  So is the loop of lex:
\* next returns on every sequence of characters, so an iteration is enabled
\* exactly while pc = "lex", and LexFair is WF_vars(Lex) with that written
\* in place of ENABLED <<Lex>>_vars.
Lex == LexBreak \/ LexPush \/ LexErr \/ LexPanic
LexFair == []<>(pc # "lex") \/ []<><<Lex>>_vars
FairSpec == Spec /\ LexFair /\ WF_vars(pc # "lex" /\ Next)

\* ------------------------------------------------------------------------
\* Properties
\* ------------------------------------------------------------------------
LexedOk == lexResult # None /\ IsOk(lexResult[1])
LexedErr == lexResult # None /\ IsErr(lexResult[1])
Printed == pc = "done"
ParsedOk == Printed /\ LexedOk /\ IsOk(output[1])
ParsedErr == Printed /\ LexedOk /\ output = Some(Err(ParseError_ExpectedToken))

\* the documents as JSON writes them, each with the tree it was written from
ValidTexts ==
    UNION {{[text |-> Flatten(ls), doc |-> d] : ls \in Spellings(LexemesOfObject(d))}
           : d \in Documents}

\* the pairs of a chain from the outermost link to the innermost: the key
\* and the kind of the value
RECURSIVE PairsOf(_)
PairsOf(m) == << <<m[2], m[3][1]>> >> \o (IF m[1] = "Pair" THEN <<>> ELSE PairsOf(m[4]))
ObjectPairs(o) == IF o = Object_Empty THEN <<>> ELSE PairsOf(o[2])

\* C1: a valid JSON object document without backslash escapes is parsed to
\* Ok, and the chain holds the document's top-level pairs, all of them, in
\* source order, equal keys as separate pairs.
C1_ValidDocumentParsed ==
    Printed =>
        \A v \in ValidTexts :
            v.text = buffer =>
                /\ ParsedOk
                /\ ObjectPairs(output[1][2]) = ObjectPairs(v.doc)

Opens == {Token_ObjectStart, Token_ArrayStart}
Closes == {Token_ObjectEnd, Token_ArrayEnd}

\* how many containers are open after the first i tokens
RECURSIVE DepthAt(_, _)
DepthAt(ts, i) ==
    IF i = 0 THEN 0
    ELSE DepthAt(ts, i - 1) + (IF ts[i] \in Opens THEN 1 ELSE IF ts[i] \in Closes THEN 0 - 1 ELSE 0)

\* the index of the token that closes the container opened by the first
\* token (the last index when nothing closes it)
SpanEnd(ts) ==
    LET closed == {i \in DOMAIN ts : DepthAt(ts, i) <= 0}
    IN  IF closed = {} THEN Len(ts) ELSE CHOOSE i \in closed : \A j \in closed : i <= j

\* a trailing comma, a leading comma or an empty pair/element at i
CommaFaultAt(ts, i) ==
    \/ ts[i] = Token_Comma /\ ts[i + 1] \in Closes
    \/ ts[i] \in Opens /\ ts[i + 1] = Token_Comma
    \/ ts[i] = Token_Comma /\ ts[i + 1] = Token_Comma

\* C2: a trailing comma, a leading comma or two adjacent commas inside the
\* top-level object, at any depth, in an object or in an array, make
\* parse_object return Err(ExpectedToken).
C2_CommaFaultRejected ==
    Printed /\ LexedOk /\ (\E i \in 1..(SpanEnd(tokens) - 1) : CommaFaultAt(tokens, i))
        => output = Some(Err(ParseError_ExpectedToken))

\* a comma right before the bracket that closes an array two containers
\* below the top-level object was rejected
C2_Witness ==
    /\ ParsedErr
    /\ \E i \in 1..(SpanEnd(tokens) - 1) :
        /\ tokens[i] = Token_Comma
        /\ tokens[i + 1] = Token_ArrayEnd
        /\ DepthAt(tokens, i) >= 3
        /\ \A j \in 1..(i - 1) : ~CommaFaultAt(tokens, j)

\* C3: when parse_object returns Ok at the top level, the cursor is at the
\* end of the token sequence: no token is left unconsumed.
C3_OkConsumesAll ==
    ParsedOk => cursor = Len(tokens)

\* how many backslashes stand right before position i
RECURSIVE BackslashesBefore(_, _)
BackslashesBefore(cs, i) ==
    IF i > 1 /\ cs[i - 1] = "\\" THEN 1 + BackslashesBefore(cs, i - 1) ELSE 0

\* the first double quote after the opening one that no backslash escapes
\* (0: there is none)
UnescapedQuote(cs) ==
    LET qs == {i \in 2..Len(cs) : cs[i] = "\"" /\ BackslashesBefore(cs, i) % 2 = 0}
    IN  IF qs = {} THEN 0 ELSE CHOOSE i \in qs : \A j \in qs : i <= j

\* C4: at a double quote, lex_string emits a String token holding, verbatim,
\* the characters up to the next unescaped double quote (an escaped quote
\* and its backslash are part of the payload), and returns
\* Err(InvalidToken) when the input ends before such a quote.
C4_StringToUnescapedQuote ==
    [][ pc = "lex" /\ chars # <<>> /\ Head(chars) = "\""
        => LET q == UnescapedQuote(chars) IN
           IF q = 0
           THEN lexResult' = Some(Err(LexError_InvalidToken))
           ELSE /\ tokens' = Append(tokens, Token_String(SubSeq(chars, 2, q - 1)))
                /\ chars' = Drop(chars, q) ]_vars

NonZeroDigits == {"1", "2", "3", "4", "5", "6", "7", "8", "9"}

\* the length of the run of decimal digits at the front of cs
RECURSIVE DecimalRun(_)
DecimalRun(cs) ==
    IF cs # <<>> /\ Head(cs) \in Range(DecimalChars) THEN 1 + DecimalRun(Tail(cs)) ELSE 0

\* the number a run of decimal digits writes in base 10
RECURSIVE DecimalValue(_)
DecimalValue(ds) ==
    IF ds = <<>> THEN 0
    ELSE DecimalValue(SubSeq(ds, 1, Len(ds) - 1)) * 10 + (IndexOf(DecimalChars, ds[Len(ds)]) - 1)

\* a call of next that returns (rather than panics) starts at a number
NumberStep ==
    pc = "lex" /\ pc' # "panicked" /\ chars # <<>> /\ Head(chars) \in NonZeroDigits

\* C5: an integer part followed by '.' and then by no decimal digit (another
\* character or the end of the input) makes lex return Err(InvalidToken),
\* with no Float token.
C5_PointWithoutDigit ==
    [][ LET n == DecimalRun(chars) IN
        /\ NumberStep
        /\ Len(chars) > n
        /\ chars[n + 1] = "."
        /\ DecimalRun(Drop(chars, n + 1)) = 0
        => /\ lexResult' = Some(Err(LexError_InvalidToken))
           /\ tokens' = <<>> ]_vars

\* C6: a literal I.F (I a digit run starting with 1-9, F a non-empty digit
\* run) gives one Float token whose value is the number the text I.F
\* writes, every digit of F in its place.  (Stated for runs of at most nine
\* digits, which fit in 32 bits, and for an F that no letter a or A follows,
\* which the digit loop would take for a digit.)
C6_FloatIsTextValue ==
    [][ LET n == DecimalRun(chars)
            m == DecimalRun(Drop(chars, n + 1))
        IN
        /\ NumberStep
        /\ Len(chars) > n
        /\ chars[n + 1] = "."
        /\ m > 0
        /\ n <= 9
        /\ m <= 9
        /\ Peek(Drop(chars, n + 1 + m)) \notin {Some("a"), Some("A")}
        => /\ tokens' = Append(tokens, Token_Float(parse_f64(SubSeq(chars, 1, n + 1 + m))[2]))
           /\ chars' = Drop(chars, n + 1 + m) ]_vars

\* C7: digit accumulation consumes the maximal run of decimal digits and
\* nothing else, the character after the run stays for the next dispatch,
\* and a run whose value fits in i32 gives Integer(that value).
C7_DecimalRunConsumed ==
    [][ LET n == DecimalRun(chars) IN
        /\ NumberStep
        /\ Peek(Drop(chars, n)) # Some(".")
        => /\ chars' = Drop(chars, n)
           /\ n <= 9 => tokens' = Append(tokens, Token_Integer(DecimalValue(SubSeq(chars, 1, n)))) ]_vars

\* C8: parse_value on String, Integer, Float, True, False or Null consumes
\* that one token and returns the Value of the same kind and payload (an
\* Integer token an integer Number, a Float token a Float Number); on
\* ObjectStart/ArrayStart it calls parse_object/parse_array without
\* consuming; on any other token or none it returns Err(ExpectedToken).
C8_ParseValueMapsToken ==
    [][ At("parse_value", "entry")
        => LET t == PeekToken(cursor)
               Returns(r, n) == stack' = Pop /\ ret' = Some(r) /\ cursor' = cursor + n
               Calls(fn) == /\ Len(stack') = Len(stack) + 1
                            /\ stack'[Len(stack')].fn = fn
                            /\ stack'[Len(stack')].at = "entry"
                            /\ cursor' = cursor
           IN
           IF t = None THEN Returns(Err(ParseError_ExpectedToken), 0)
           ELSE CASE t[1][1] = "String" -> Returns(Ok(Value_String(t[1][2])), 1)
                  [] t[1][1] = "Integer" ->
                        \/ Returns(Ok(Value_Number(JSONNumber_Integer(t[1][2]))), 1)
                        \/ Returns(Ok(Value_Number_i32(t[1][2])), 1)
                  [] t[1][1] = "Float" -> Returns(Ok(Value_Number(JSONNumber_Float(t[1][2]))), 1)
                  [] t[1][1] = "True" -> Returns(Ok(Value_True), 1)
                  [] t[1][1] = "False" -> Returns(Ok(Value_False), 1)
                  [] t[1][1] = "Null" -> Returns(Ok(Value_Null), 1)
                  [] t[1][1] = "ObjectStart" -> Calls("parse_object")
                  [] t[1][1] = "ArrayStart" -> Calls("parse_array")
                  [] OTHER -> Returns(Err(ParseError_ExpectedToken), 0) ]_vars

LiteralWord(c) ==
    CASE c = "t" -> <<"t", "r", "u", "e">>
      [] c = "f" -> <<"f", "a", "l", "s", "e">>
      [] c = "n" -> <<"n", "u", "l", "l">>

LiteralToken(c) ==
    CASE c = "t" -> Token_True
      [] c = "f" -> Token_False
      [] c = "n" -> Token_Null

\* C9: at 't', 'f' or 'n' the lexer emits True, False or Null only when the
\* input spells true, false or null there; a mismatch at any position, or
\* the end of the input before the word is complete, returns
\* Err(InvalidToken) and leaves no token.
C9_LiteralSpelledExactly ==
    [][ pc = "lex" /\ chars # <<>> /\ Head(chars) \in {"t", "f", "n"}
        => LET w == LiteralWord(Head(chars)) IN
           IF Take(chars, Len(w)) = w
           THEN /\ tokens' = Append(tokens, LiteralToken(Head(chars)))
                /\ chars' = Drop(chars, Len(w))
                /\ lexResult' = None
           ELSE /\ lexResult' = Some(Err(LexError_InvalidToken))
                /\ tokens' = <<>> ]_vars

\* the text t, r, u, e, t: a True token, then a word cut off by the end of
\* the input, and lex returned Err
C9_Witness ==
    /\ pc = "lexed"
    /\ LexedErr
    /\ tokens = <<>>
    /\ buffer = <<"t", "r", "u", "e", "t">>

\* a backslash stands in the text outside every string
StrayBackslash(text) ==
    \E i \in DOMAIN text :
        /\ text[i] = "\\"
        /\ \A j \in 1..(i - 1) : text[j] # "\""

\* C10: once a production has returned Err, every enclosing call returns
\* that same Err without consuming a token, and main prints it: no Ok tree
\* comes out of a failed parse.  Once lex has returned Err there is no token
\* sequence, no parse, and the error is what main prints; a text with an
\* invalid lexeme never lexes to Ok.
C10_FailureIsTotal ==
    /\ [][ pc = "parse" /\ ret # None /\ IsErr(ret[1])
           => /\ ret' = ret
              /\ ret = Some(Err(ParseError_ExpectedToken))
              /\ cursor' = cursor
              /\ \/ pc' = "parse" /\ stack' = Pop
                 \/ pc' = "done" /\ stack = <<>> /\ output' = ret ]_vars
    /\ [](LexedErr =>
            /\ lexResult = Some(Err(LexError_InvalidToken))
            /\ tokens = <<>>
            /\ stack = <<>>
            /\ pc \in {"lexed", "done"}
            /\ pc = "done" => output = Some(LexError_InvalidToken))
    /\ [](lexResult # None /\ StrayBackslash(buffer) => LexedErr)

\* a production eight calls below parse_object has returned Err and the
\* enclosing calls have yet to return
C10_Witness ==
    /\ pc = "parse"
    /\ ret = Some(Err(ParseError_ExpectedToken))
    /\ Len(stack) >= 8

\* a Members chain: Pairs links ending in a Pair, so at least one pair
RECURSIVE IsMembers(_)
IsMembers(m) ==
    \/ Len(m) = 3 /\ m[1] = "Pair"
    \/ Len(m) = 4 /\ m[1] = "Pairs" /\ IsMembers(m[4])

\* an Elements chain: Many links ending in a Single, so at least one element
RECURSIVE IsElements(_)
IsElements(e) ==
    \/ Len(e) = 2 /\ e[1] = "Single"
    \/ Len(e) = 3 /\ e[1] = "Many" /\ IsElements(e[3])

ReturnsNow(r) == stack' = Pop /\ ret' = Some(r)

\* every container of the tree t is Empty or Nonempty around a chain
RECURSIVE ShapedValue(_)
ShapedValue(v) ==
    IF v[1] = "Object"
    THEN \/ v[2] = Object_Empty
         \/ /\ v[2][1] = "Nonempty"
            /\ IsMembers(v[2][2])
            /\ LET RECURSIVE All(_)
                   All(m) == /\ ShapedValue(m[3])
                             /\ m[1] = "Pairs" => All(m[4])
               IN  All(v[2][2])
    ELSE IF v[1] = "Array"
    THEN \/ v[2] = Array_Empty
         \/ /\ v[2][1] = "Nonempty"
            /\ IsElements(v[2][2])
            /\ LET RECURSIVE Each(_)
                   Each(e) == /\ ShapedValue(e[2])
                              /\ e[1] = "Many" => Each(e[3])
               IN  Each(v[2][2])
    ELSE TRUE

\* C11: parse_object returns Object::Empty exactly when the two tokens at
\* the cursor are ObjectStart and ObjectEnd, and parse_array returns
\* Array::Empty exactly when they are ArrayStart and ArrayEnd; what the
\* closures return after the members or elements is an Err or a Nonempty
\* around a chain of at least one pair or element, never Empty; and every
\* container of a printed tree is Empty or a Nonempty around such a chain.
C11_EmptyIffAdjacent ==
    /\ [][ At("parse_object", "entry")
           => (ReturnsNow(Ok(Object_Empty))
               <=> /\ PeekToken(cursor) = Some(Token_ObjectStart)
                   /\ PeekToken(cursor + 1) = Some(Token_ObjectEnd)) ]_vars
    /\ [][ At("parse_array", "entry")
           => (ReturnsNow(Ok(Array_Empty))
               <=> /\ PeekToken(cursor) = Some(Token_ArrayStart)
                   /\ PeekToken(cursor + 1) = Some(Token_ArrayEnd)) ]_vars
    /\ [][ At("parse_object", "members") /\ ret' # None /\ IsOk(ret'[1])
           => /\ ret'[1][2][1] = "Nonempty"
              /\ IsMembers(ret'[1][2][2]) ]_vars
    /\ [][ At("parse_array", "elements") /\ ret' # None /\ IsOk(ret'[1])
           => /\ ret'[1][2][1] = "Nonempty"
              /\ IsElements(ret'[1][2][2]) ]_vars
    /\ [](ParsedOk => ShapedValue(Value_Object(output[1][2])))

\* main has printed an object whose one pair holds the empty array
C11_Witness ==
    /\ ParsedOk
    /\ output[1][2] =
         Object_Nonempty(Members_Pair(<<"a">>, Value_Array(Array_Empty)))

\* the process has ended: main has printed and returned, or has panicked
Halted == pc \in {"done", "panicked"}

\* C12: the run halts on every input.  Each iteration of the loop of lex
\* takes at least one character or ends the scan, each call of a production
\* that returns Ok has taken at least one token since it was made, and the
\* character and token positions never move back.
C12_Terminates ==
    /\ <>Halted
    /\ [][ pc = "lex" => \/ Len(chars') < Len(chars)
                         \/ pc' # "lex" /\ Len(chars') <= Len(chars) ]_vars
    /\ [][ Len(chars') <= Len(chars) /\ cursor' >= cursor ]_vars
    /\ [][ /\ pc = "parse" /\ stack # <<>> /\ stack' = Pop
           /\ ret' # None /\ IsOk(ret'[1])
           => cursor' > Top.from ]_vars

\* main has printed the tree of a text with an array nested in an array,
\* after the scan took the whole text and the parse took every token
C12_Witness ==
    /\ ParsedOk
    /\ chars = <<>>
    /\ cursor = Len(tokens)
    /\ \E k \in Keys :
         output[1][2] = Object_Nonempty(Members_Pair(k,
             Value_Array(Array_Nonempty(Elements_Single(
                 Value_Array(Array_Empty))))))

\* C13: every Integer token the tokenizer emits has a value of zero or
\* more, whatever the length of the digit run.
C13_IntegerNonNegative ==
    \A i \in DOMAIN tokens :
        tokens[i][1] = "Integer" => tokens[i][2] >= 0

====
